---------------------------- MODULE Spec2Model ----------------------------
(***************************************************************************)
(* kedge: the request-dispatch pipeline.                                   *)
(*                                                                         *)
(*   - the ad-hoc addresser (package router, addresser.Address and its     *)
(*     helpers), translated from the Go source;                            *)
(*   - the HTTP router (router.NewStatic) and the backend pool             *)
(*     (backendpool.NewStatic), whose Go sources are not part of the       *)
(*     source tree at hand: they are modelled from the design document     *)
(*     and driven with the configuration of the integration test.          *)
(*                                                                         *)
(* Go strings are TLA+ strings; a byte s[i] is SubSeq(s, i+1, i+1).        *)
(***************************************************************************)
EXTENDS Integers, Sequences, FiniteSets, TLC

VARIABLES
    rules,      \* addresser.rules: the configured []*pb.Adhoc
    req,        \* the request handed to the addresser
    call,       \* the Address invocation at hand: request, lookups made, outcome
    routes,     \* the router's configured []*pb.Route
    rreq,       \* the request handed to the router
    rcall,      \* the Match invocation at hand: request and outcome
    pool,       \* per backend name: the live target list and the cursor
    picks,      \* per backend name: the targets selected since its last refresh
    got,        \* what the last Pool.Get returned
    shared,     \* a pool entry under concurrent use: the list reference, the cursor
    readers,    \* per concurrent Get: its position, its list and its selection
    refresher,  \* the refresh task of the entry: its position and its new list
    installed,  \* the resolver snapshots the entry was given: the last two
    dreq,       \* the gRPC call handed to the director
    dcall       \* the director invocation at hand: calls made and outcome

(***************************************************************************)
(* Bounds of the model.                                                    *)
(***************************************************************************)
MaxRules == 2       \* longest configured AdhocRule list
MaxRoutes == 2      \* longest Route list drawn (the test's list of 4 is added)
MaxTargets == 2     \* listeners started per backend
MaxCursor == 5      \* successful Gets per backend

(***************************************************************************)
(* Go's strings and strconv, as far as the addresser uses them.            *)
(***************************************************************************)
CharAt(s, i) == SubSeq(s, i + 1, i + 1)          \* s[i], 0-based

Slice(s, from, to) == SubSeq(s, from + 1, to)    \* s[from:to], 0-based

\* strings.LastIndex(s, c) for a one-byte c: the last 0-based offset, or -1.
LastIndex(s, c) ==
    LET hits == {i \in 0..(Len(s) - 1) : CharAt(s, i) = c}
    IN  IF hits = {} THEN -1 ELSE CHOOSE i \in hits : \A j \in hits : j <= i

\* strings.Contains(s, c) for a one-byte c.
ContainsByte(s, c) == LastIndex(s, c) # -1

Digits == <<"0", "1", "2", "3", "4", "5", "6", "7", "8", "9">>

IsDigit(c) == \E d \in 1..10 : Digits[d] = c

DigitVal(c) == (CHOOSE d \in 1..10 : Digits[d] = c) - 1

RECURSIVE ParseDigits(_, _)
\* The value of a string of decimal digits, most significant first.
ParseDigits(s, acc) ==
    IF s = "" THEN acc
    ELSE ParseDigits(Slice(s, 1, Len(s)), acc * 10 + DigitVal(CharAt(s, 0)))

AllDigits(s) == \A i \in 0..(Len(s) - 1) : IsDigit(CharAt(s, i))

Quote(s) == "\"" \o s \o "\""

\* (*strconv.NumError).Error()
NumError(s, what) == "strconv.ParseInt: parsing " \o Quote(s) \o ": " \o what

\* strconv.ParseInt(s, 10, bitSize): an optional sign, then decimal digits only;
\* the value must fit a signed integer of bitSize bits.
ParseInt(s, bitSize) ==
    LET signed == s # "" /\ CharAt(s, 0) \in {"+", "-"}
        neg    == s # "" /\ CharAt(s, 0) = "-"
        body   == IF signed THEN Slice(s, 1, Len(s)) ELSE s
        cutoff == 2 ^ (bitSize - 1)
        un     == ParseDigits(body, 0)
    IN  IF s = "" \/ body = "" \/ ~AllDigits(body)
        THEN [val |-> 0, ok |-> FALSE, err |-> NumError(s, "invalid syntax")]
        ELSE IF (~neg /\ un >= cutoff) \/ (neg /\ un > cutoff)
        THEN [val |-> IF neg THEN -cutoff ELSE cutoff - 1, ok |-> FALSE,
              err |-> NumError(s, "value out of range")]
        ELSE [val |-> IF neg THEN -un ELSE un, ok |-> TRUE, err |-> ""]

RECURSIVE FormatNat(_)
FormatNat(n) ==
    IF n < 10 THEN Digits[n + 1]
    ELSE FormatNat(n \div 10) \o Digits[(n % 10) + 1]

\* strconv.FormatInt(n, 10), and fmt's %d.
FormatInt(n) == IF n < 0 THEN "-" \o FormatNat(-n) ELSE FormatNat(n)

\* net.JoinHostPort: a host holding a colon or a percent sign is bracketed.
JoinHostPort(host, port) ==
    IF ContainsByte(host, ":") \/ ContainsByte(host, "%")
    THEN "[" \o host \o "]:" \o port
    ELSE host \o ":" \o port


(***************************************************************************)
(* Errors of package router.                                               *)
(***************************************************************************)
StatusBadRequest == 400
StatusBadGateway == 502

Nil == [status |-> 0, msg |-> ""]                       \* a nil error

NewError(status, msg) == [status |-> status, msg |-> msg]

ErrRouteNotFound == NewError(StatusBadGateway, "unknown route to service")

(***************************************************************************)
(* Configuration and inputs of the addresser.  A rule is a pb.Adhoc:       *)
(* DnsNameMatcher and Port{Default, Allowed, AllowedRanges{From, To}},     *)
(* the numbers uint32.  Every rule carries its Port message, as the        *)
(* configuration of the integration test does.                             *)
(***************************************************************************)
Range(from, to) == [From |-> from, To |-> to]

Adhoc(matcher, default, allowed, ranges) ==
    [DnsNameMatcher |-> matcher,
     Port |-> [Default |-> default, Allowed |-> allowed, AllowedRanges |-> ranges]]

\* The rule of the integration test.
adhocConfig == Adhoc("*.pods.test.local", 0, <<>>, <<Range(1024, 65535)>>)

AdhocRules ==
    { adhocConfig,
      Adhoc("*.pods.test.local", 8080, <<>>, <<Range(1024, 65535)>>),
      Adhoc("svc.test.local", 0, <<80>>, <<>>),
      Adhoc("svc.test.local", 443, <<443>>, <<>>),
      Adhoc("svc.test.local", 8443, <<443>>, <<>>),
      Adhoc("", 0, <<80>>, <<>>) }

RuleLists == UNION {[1..n -> AdhocRules] : n \in 0..MaxRules}

\* req.URL.Host of the requests made.
Hosts ==
    { "", "svc.test.local", "pods.test.local", ".pods.test.local",
      "foo.pods.test.local", "foo.other.local",
      "10-0-0-5.pods.test.local:9000", "10-0-0-5.pods.test.local:80",
      "svc.test.local:80", "svc.test.local:40000", "svc.test.local:http",
      "svc.test.local:", ".pods.test.local:65535" }

\* What DefaultALookup may return: an error, a list of addresses, or an empty
\* list with no error.
LookupOutcomes ==
    { [addrs |-> <<>>, failed |-> TRUE],
      [addrs |-> <<"10.0.0.5">>, failed |-> FALSE],
      [addrs |-> <<>>, failed |-> FALSE] }

(***************************************************************************)
(* The addresser.                                                          *)
(***************************************************************************)
\* uint32(n) of an int n, as its two 16-bit halves (TLC's integers are 32 bits
\* wide): a negative n wraps to n + 2^32.
ToUint32(n) == [hi |-> (n \div 65536) % 65536, lo |-> n % 65536]

Uint32Le(a, b) == a.hi < b.hi \/ (a.hi = b.hi /\ a.lo <= b.lo)

extractHostPort(hostStr) ==
    LET portOffset == LastIndex(hostStr, ":")
        portPart   == Slice(hostStr, portOffset, Len(hostStr))
        pNum       == ParseInt(portPart, 16)
    IN  IF portOffset = -1
        THEN [hostName |-> hostStr, port |-> 0, err |-> Nil]
        ELSE IF ~pNum.ok
        THEN [hostName |-> "", port |-> 0,
              err |-> NewError(StatusBadRequest,
                               "malformed port number: " \o pNum.err)]
        ELSE [hostName |-> Slice(hostStr, 0, portOffset), port |-> pNum.val,
              err |-> Nil]

\* hostMatches comparing an empty matcher like any other matcher.
hostMatchesEmptyCompared(host, matcher) ==
    IF matcher = "" THEN host = matcher
    ELSE IF CharAt(matcher, 0) # "*" THEN host = matcher
    ELSE host = Slice(matcher, 1, Len(matcher))

hostMatches(host, matcher) ==
    IF matcher = "" THEN FALSE
    ELSE IF CharAt(matcher, 0) # "*" THEN host = matcher
    ELSE host = Slice(matcher, 1, Len(matcher))

\* portForRule without the rule's default port.
portForRuleNoDefault(port, rule) == IF port = 0 THEN 80 ELSE port

\* The port the rule is asked about: the request's, or the rule's default, or 80.
portForRule(port, rule) ==
    IF port = 0
    THEN IF rule.Port.Default # 0 THEN rule.Port.Default ELSE 80
    ELSE port

\* portAllowed with a range test that accepts a port on either side of a bound.
portAllowedEitherBound(port, portRule) ==
    LET uPort == ToUint32(port)
    IN  \/ \E i \in 1..Len(portRule.Allowed) :
              ToUint32(portRule.Allowed[i]) = uPort
        \/ \E i \in 1..Len(portRule.AllowedRanges) :
              \/ Uint32Le(ToUint32(portRule.AllowedRanges[i].From), uPort)
              \/ Uint32Le(uPort, ToUint32(portRule.AllowedRanges[i].To))

portAllowed(port, portRule) ==
    LET uPort == ToUint32(port)
    IN  \/ \E i \in 1..Len(portRule.Allowed) :
              ToUint32(portRule.Allowed[i]) = uPort
        \/ \E i \in 1..Len(portRule.AllowedRanges) :
              /\ Uint32Le(ToUint32(portRule.AllowedRanges[i].From), uPort)
              /\ Uint32Le(uPort, ToUint32(portRule.AllowedRanges[i].To))

\* resolveHost on what DefaultALookup returned; addrs[0] of an empty list panics.
resolveHost(looked) ==
    IF looked.failed
    THEN [ip |-> "", err |-> NewError(StatusBadGateway, "cannot resolve host"),
          panic |-> FALSE]
    ELSE IF Len(looked.addrs) = 0
    THEN [ip |-> "", err |-> Nil, panic |-> TRUE]
    ELSE [ip |-> looked.addrs[1], err |-> Nil, panic |-> FALSE]

\* What an invocation leaves behind: the returned pair (or the panic), the
\* rules whose matcher matched, in the order the loop met them, and the lookups
\* made, in order.
Outcome(addr, err, panic, matched, lookups) ==
    [addr |-> addr, err |-> err, panic |-> panic, matched |-> matched,
     lookups |-> lookups]

RECURSIVE AddressLoop(_, _, _, _, _, _, _, _)
\* The loop over a.rules from rule i on; dns[k] is what the k-th lookup returns.
AddressLoop(i, host, hostName, port, rs, dns, matched, lookups) ==
    IF i > Len(rs)
    THEN Outcome("", ErrRouteNotFound, FALSE, matched, lookups)
    ELSE IF ~hostMatches(host, rs[i].DnsNameMatcher)
    THEN AddressLoop(i + 1, host, hostName, port, rs, dns, matched, lookups)
    ELSE
      LET p      == portForRule(port, rs[i])
          seen   == Append(matched, i)
          looked == dns[Len(lookups) + 1]
          made   == Append(lookups, [host |-> hostName, got |-> looked])
          r      == resolveHost(looked)
      IN  IF ~portAllowed(p, rs[i].Port)
          THEN Outcome("",
                       NewError(StatusBadRequest,
                                "port " \o FormatInt(p) \o " is not allowed"),
                       FALSE, seen, lookups)
          ELSE IF r.panic
          THEN Outcome("", Nil, TRUE, seen, made)
          ELSE IF r.err # Nil
          THEN Outcome(JoinHostPort(r.ip, FormatInt(p)), Nil, FALSE, seen, made)
          ELSE AddressLoop(i + 1, host, hostName, port, rs, dns, seen, made)

\* addresser.Address on a request with URL.Host = host.
AddressOf(host, rs, dns) ==
    LET hp == extractHostPort(host)
    IN  IF hp.err # Nil
        THEN Outcome("", hp.err, FALSE, <<>>, <<>>)
        ELSE AddressLoop(1, host, hp.hostName, hp.port, rs, dns, <<>>, <<>>)

(***************************************************************************)
(* The state machine of the addresser: NewAddresser, then one request      *)
(* after the other.  A request is handed over (Request) and served         *)
(* (Address); the resolver's answers during the call are the call's dns,   *)
(* and call holds the invocation of the request at hand only.              *)
(***************************************************************************)
NoReq == [pending |-> FALSE, host |-> ""]

NoCall ==
    [done |-> FALSE, host |-> "", dns |-> <<>>,
     parsed |-> [hostName |-> "", port |-> 0, err |-> Nil],
     out |-> Outcome("", Nil, FALSE, <<>>, <<>>)]

NewAddresser == rules \in RuleLists

AddrInit == NewAddresser /\ req = NoReq /\ call = NoCall

addrVars == <<rules, req, call>>

routerVars == <<routes, rreq, rcall>>

poolVars == <<pool, picks, got>>

concVars == <<shared, readers, refresher, installed>>

dirVars == <<dreq, dcall>>

Request ==
    /\ ~req.pending
    /\ \E host \in Hosts : req' = [pending |-> TRUE, host |-> host]
    /\ call' = NoCall
    /\ UNCHANGED <<rules, routerVars, poolVars, concVars, dirVars>>

Address ==
    /\ req.pending
    /\ \E dns \in [1..Len(rules) -> LookupOutcomes] :
          call' = [done |-> TRUE, host |-> req.host, dns |-> dns,
                   parsed |-> extractHostPort(req.host),
                   out |-> AddressOf(req.host, rules, dns)]
    /\ req' = [req EXCEPT !.pending = FALSE]
    /\ UNCHANGED <<rules, routerVars, poolVars, concVars, dirVars>>

(***************************************************************************)
(* The HTTP router (router.NewStatic), after section 4.2 of the design:    *)
(* routes are tried in configured order, and a route matches when its      *)
(* proxy mode, host matcher, path rules and header matcher all hold.       *)
(***************************************************************************)
Upper == "ABCDEFGHIJKLMNOPQRSTUVWXYZ"
Lower == "abcdefghijklmnopqrstuvwxyz"

LowerChar(c) ==
    IF \E i \in 1..26 : SubSeq(Upper, i, i) = c
    THEN LET i == CHOOSE i \in 1..26 : SubSeq(Upper, i, i) = c
         IN  SubSeq(Lower, i, i)
    ELSE c

RECURSIVE ToLower(_)
ToLower(s) ==
    IF s = "" THEN ""
    ELSE LowerChar(CharAt(s, 0)) \o ToLower(Slice(s, 1, Len(s)))

RECURSIVE GlobMatch(_, _)
\* A glob pattern against a path: "*" stands for any run of characters.
GlobMatch(pattern, path) ==
    IF pattern = "" THEN path = ""
    ELSE IF CharAt(pattern, 0) = "*"
    THEN \E k \in 0..Len(path) :
            GlobMatch(Slice(pattern, 1, Len(pattern)), Slice(path, k, Len(path)))
    ELSE /\ path # ""
         /\ CharAt(path, 0) = CharAt(pattern, 0)
         /\ GlobMatch(Slice(pattern, 1, Len(pattern)), Slice(path, 1, Len(path)))

Header(key, value) == [key |-> key, value |-> value]

Route(backend, paths, host, headers, mode) ==
    [BackendName |-> backend, PathRules |-> paths, HostMatcher |-> host,
     HeaderMatcher |-> headers, ProxyMode |-> mode]

\* The routes of the integration test.
routeConfigs ==
    << Route("non_secure", <<"/some/strict/path">>, "nonsecure.ext.example.com",
             {}, "REVERSE_PROXY"),
       Route("non_secure", <<>>, "nonsecure.backends.test.local", {},
             "FORWARD_PROXY"),
       Route("secure", <<"/some/strict/path">>, "secure.ext.example.com", {},
             "REVERSE_PROXY"),
       Route("secure", <<>>, "secure.backends.test.local", {}, "FORWARD_PROXY") >>

RouteSet ==
    { routeConfigs[1], routeConfigs[4],
      Route("api", <<"/v2/admin", "/v1/*">>, "api.example.com", {}, "REVERSE_PROXY"),
      Route("canary", <<>>, "", {Header("x-canary", "1")}, "ANY"),
      Route("fallback", <<"/*">>, "", {}, "ANY") }

RouteLists == UNION {[1..n -> RouteSet] : n \in 0..MaxRoutes} \cup {routeConfigs}

\* The requests: the observed proxy mode, the authority, the path, the headers.
HttpRequests ==
    [mode : {"REVERSE_PROXY", "FORWARD_PROXY"},
     host : {"nonsecure.ext.example.com", "secure.backends.test.local",
             "api.example.com", "API.Example.com"},
     path : {"/some/strict/path", "/other_path", "/v1/users", "/v2/users"},
     headers : {{}, {Header("X-Canary", "1")}, {Header("x-canary", "2")}}]

\* RouteMatches without the proxy mode.
RouteMatchesAnyMode(route, r) ==
    /\ route.HostMatcher = "" \/ ToLower(route.HostMatcher) = ToLower(r.host)
    /\ IF route.PathRules = <<>> THEN GlobMatch("/*", r.path)
       ELSE \E i \in 1..Len(route.PathRules) : GlobMatch(route.PathRules[i], r.path)
    /\ \A want \in route.HeaderMatcher :
          \E have \in r.headers :
              ToLower(have.key) = ToLower(want.key) /\ have.value = want.value

RouteMatches(route, r) ==
    /\ route.ProxyMode = "ANY" \/ route.ProxyMode = r.mode
    /\ route.HostMatcher = "" \/ ToLower(route.HostMatcher) = ToLower(r.host)
    /\ IF route.PathRules = <<>> THEN GlobMatch("/*", r.path)
       ELSE \E i \in 1..Len(route.PathRules) : GlobMatch(route.PathRules[i], r.path)
    /\ \A want \in route.HeaderMatcher :
          \E have \in r.headers :
              ToLower(have.key) = ToLower(want.key) /\ have.value = want.value

\* What Match returns, and the route it took the backend from (0: none).
Matched(backend, err, route) == [backend |-> backend, err |-> err, route |-> route]

RECURSIVE MatchLoop(_, _, _)
MatchLoop(i, rs, r) ==
    IF i > Len(rs) THEN Matched("", ErrRouteNotFound, 0)
    ELSE IF RouteMatches(rs[i], r) THEN Matched(rs[i].BackendName, Nil, i)
    ELSE MatchLoop(i + 1, rs, r)

\* Router.Match(request).
MatchOf(rs, r) == MatchLoop(1, rs, r)

NoHttpReq ==
    [pending |-> FALSE,
     r |-> [mode |-> "REVERSE_PROXY", host |-> "", path |-> "", headers |-> {}]]

NoMatch == [done |-> FALSE, r |-> NoHttpReq.r, out |-> Matched("", Nil, 0)]

NewStatic == routes \in RouteLists

RouterInit == NewStatic /\ rreq = NoHttpReq /\ rcall = NoMatch

\* Component left unconfigured and idle.
AddrIdle == rules = <<>> /\ req = NoReq /\ call = NoCall

RouterIdle == routes = <<>> /\ rreq = NoHttpReq /\ rcall = NoMatch

Arrive ==
    /\ ~rreq.pending
    /\ \E r \in HttpRequests : rreq' = [pending |-> TRUE, r |-> r]
    /\ rcall' = NoMatch
    /\ UNCHANGED <<routes, addrVars, poolVars, concVars, dirVars>>

Match ==
    /\ rreq.pending
    /\ rcall' = [done |-> TRUE, r |-> rreq.r, out |-> MatchOf(routes, rreq.r)]
    /\ rreq' = [rreq EXCEPT !.pending = FALSE]
    /\ UNCHANGED <<routes, addrVars, poolVars, concVars, dirVars>>

(***************************************************************************)
(* The backend pool (backendpool.NewStatic), after section 4.1 of the      *)
(* design: one entry per configured backend, holding the live target list  *)
(* of the last resolution and a round-robin cursor.  A refresh replaces    *)
(* the list and keeps the cursor.  The resolver is the one of the          *)
(* integration test: the first `resolvable` listeners of the backend.      *)
(***************************************************************************)
\* backendConfigs: the names of the configured backends and their first port.
BackendNames == {"non_secure", "secure"}

BasePort(name) == IF name = "secure" THEN 9000 ELSE 8000

\* localBackends.listeners: listener.Addr().String() of the servers started.
Listeners(name) ==
    [i \in 1..MaxTargets |-> "127.0.0.1:" \o FormatInt(BasePort(name) + i)]

Min(a, b) == IF a <= b THEN a ELSE b

\* localBackends.targets(): the DialAddr of the first `resolvable` listeners.
Targets(name, resolvable) ==
    SubSeq(Listeners(name), 1, Min(resolvable, Len(Listeners(name))))

ErrUnknownBackend == NewError(StatusBadGateway, "unknown backend")

ErrNoLiveTargets == NewError(StatusBadGateway, "no live targets")

\* A selection that stops at the end of the list instead of wrapping.
SelectClamped(live, cursor) == live[Min(cursor + 1, Len(live))]

\* Round robin: the cursor modulo the length of the live list.
Select(live, cursor) == live[(cursor % Len(live)) + 1]

Entry(live, cursor) == [live |-> live, cursor |-> cursor]

Conn(name, addr, err) == [name |-> name, addr |-> addr, err |-> err]

\* NewStatic: every backend starts with its first resolution and cursor 0.
NewStaticPool ==
    \E resolvable \in [BackendNames -> 0..MaxTargets] :
        pool = [n \in BackendNames |-> Entry(Targets(n, resolvable[n]), 0)]

PoolInit ==
    /\ NewStaticPool
    /\ picks = [n \in BackendNames |-> <<>>]
    /\ got = Conn("", "", Nil)

PoolIdle ==
    /\ pool = [n \in BackendNames |-> Entry(<<>>, 0)]
    /\ picks = [n \in BackendNames |-> <<>>]
    /\ got = Conn("", "", Nil)

\* Pool.Get(name).
Get(name) ==
    /\ \/ /\ name \notin BackendNames
          /\ got' = Conn(name, "", ErrUnknownBackend)
          /\ UNCHANGED <<pool, picks>>
       \/ /\ name \in BackendNames
          /\ pool[name].live = <<>>
          /\ got' = Conn(name, "", ErrNoLiveTargets)
          /\ UNCHANGED <<pool, picks>>
       \/ /\ name \in BackendNames
          /\ pool[name].live # <<>>
          /\ pool[name].cursor < MaxCursor
          /\ LET addr == Select(pool[name].live, pool[name].cursor)
             IN  /\ got' = Conn(name, addr, Nil)
                 /\ picks' = [picks EXCEPT ![name] = Append(@, addr)]
          /\ pool' = [pool EXCEPT ![name].cursor = @ + 1]
    /\ UNCHANGED <<addrVars, routerVars, concVars, dirVars>>

\* The refresh task of a backend: the resolver's snapshot replaces the list.
Refresh(name, resolvable) ==
    /\ pool' = [pool EXCEPT ![name].live = Targets(name, resolvable)]
    /\ picks' = [picks EXCEPT ![name] = <<>>]
    /\ UNCHANGED <<got, addrVars, routerVars, concVars, dirVars>>

(***************************************************************************)
(* A pool entry under concurrent use, after section 5 of the design: many  *)
(* Get calls and the one refresh task of the backend.  A Get reads the     *)
(* list reference, then advances the cursor and selects from the list it   *)
(* read.  The refresh task resolves on its own, then replaces the          *)
(* reference.  The resolver may return any snapshot: the targets of one    *)
(* generation of the backend's instances.                                  *)
(***************************************************************************)
Readers == {"get1", "get2"}

Generations == {1, 2}

\* The DialAddr of the first k instances of a generation.
GenTargets(g, k) ==
    [i \in 1..k |-> "10.0." \o FormatInt(g) \o "." \o FormatInt(i) \o ":80"]

\* What srv.Resolver.Lookup may return for the backend.
Snapshots == {GenTargets(g, k) : g \in Generations, k \in 0..MaxTargets}

\* A refresh that writes the new list over the old one, entry by entry, and is
\* seen after its first write.
InstallInPlace(old, fresh) ==
    IF fresh = <<>> \/ old = <<>> THEN fresh
    ELSE <<fresh[1]>> \o SubSeq(old, 2, Len(old))

\* The refresh replaces the reference: the list is the resolver's snapshot.
Install(old, fresh) == fresh

Reader(pc, list, addr, err, swaps) ==
    [pc |-> pc, list |-> list, addr |-> addr, err |-> err, swaps |-> swaps]

ConcInit ==
    /\ \E first \in Snapshots :
          /\ shared = Entry(first, 0)
          /\ installed = [current |-> first, previous |-> first]
    /\ readers = [r \in Readers |-> Reader("idle", <<>>, "", Nil, 0)]
    /\ refresher = [pc |-> "idle", fresh |-> <<>>]

ConcIdle ==
    /\ shared = Entry(<<>>, 0)
    /\ installed = [current |-> <<>>, previous |-> <<>>]
    /\ readers = [r \in Readers |-> Reader("idle", <<>>, "", Nil, 0)]
    /\ refresher = [pc |-> "idle", fresh |-> <<>>]

\* Get, first step: read the reference to the live target list.
GetLoad(r) ==
    /\ readers[r].pc = "idle"
    /\ readers' = [readers EXCEPT ![r] = Reader("loaded", shared.live, "", Nil, 0)]
    /\ UNCHANGED <<shared, refresher, installed, addrVars, routerVars, poolVars,
                   dirVars>>

\* Get, second step: fail on an empty list, or advance the cursor and select.
\* The cursor is followed for one round of the longest list.
GetSelect(r) ==
    /\ readers[r].pc = "loaded"
    /\ \/ /\ readers[r].list = <<>>
          /\ readers' = [readers EXCEPT ![r].pc = "idle",
                                        ![r].err = ErrNoLiveTargets]
          /\ UNCHANGED shared
       \/ /\ readers[r].list # <<>>
          /\ shared.cursor < MaxTargets
          /\ readers' = [readers EXCEPT
                            ![r].pc = "idle",
                            ![r].addr = Select(readers[r].list, shared.cursor)]
          /\ shared' = [shared EXCEPT !.cursor = @ + 1]
    /\ UNCHANGED <<refresher, installed, addrVars, routerVars, poolVars, dirVars>>

\* The refresh task, first step: the resolver call, off the request path.
Resolve ==
    /\ refresher.pc = "idle"
    /\ \E fresh \in Snapshots : refresher' = [pc |-> "resolved", fresh |-> fresh]
    /\ UNCHANGED <<shared, readers, installed, addrVars, routerVars, poolVars,
                   dirVars>>

\* The refresh task, second step: the new list replaces the live one.
Swap ==
    /\ refresher.pc = "resolved"
    /\ shared' = [shared EXCEPT !.live = Install(shared.live, refresher.fresh)]
    /\ installed' = [current |-> refresher.fresh, previous |-> installed.current]
    /\ readers' = [r \in Readers |->
                      IF readers[r].pc = "loaded"
                      THEN [readers[r] EXCEPT !.swaps = Min(@ + 1, 2)]
                      ELSE readers[r]]
    /\ refresher' = [pc |-> "idle", fresh |-> <<>>]
    /\ UNCHANGED <<addrVars, routerVars, poolVars, dirVars>>

(***************************************************************************)
(* The gRPC director.                                                      *)
(***************************************************************************)
\* The methods of the gRPC calls handed to the director.
Methods ==
    {"/kedge.test.Service/Ping", "/kedge.test.Service/PingList",
     "/kedge.other.Service/Get", "/unknown.Service/Call"}

\* What router.Route may return: a backend name and an error, as the interface
\* allows.
Routed(beName, err) == [beName |-> beName, err |-> err]

RouteOutcomes ==
    {Routed(n, e) : n \in {"", "backend_a", "backend_b"},
                    e \in {Nil, ErrRouteNotFound,
                           NewError(StatusBadRequest, "no service in method")}}

\* What pool.Conn may return: a connection and an error.
NilConn == "nil"

Dialed(cc, err) == [cc |-> cc, err |-> err]

ConnOutcomes ==
    {Dialed(c, e) : c \in {NilConn, "cc1", "cc2"},
                    e \in {Nil, ErrUnknownBackend, ErrNoLiveTargets}}

NotAsked == Dialed(NilConn, Nil)

RouteCall(fullMethodName) == [to |-> "router.Route", arg |-> fullMethodName]

ConnCall(beName) == [to |-> "pool.Conn", arg |-> beName]

Directed(calls, fields, asked, cc, err) ==
    [calls |-> calls, fields |-> fields, asked |-> asked, cc |-> cc, err |-> err]

\* A director that asks the pool whatever the router returned.
DirectorEager(fullMethodName, routed, conn) ==
    LET calls == <<RouteCall(fullMethodName), ConnCall(routed.beName)>>
    IN  IF routed.err # Nil
        THEN Directed(calls, <<>>, conn, NilConn, routed.err)
        ELSE IF conn.err # Nil
        THEN Directed(calls, <<"proxy_backend", routed.beName>>, conn, NilConn,
                      conn.err)
        ELSE Directed(calls, <<"proxy_backend", routed.beName>>, conn, conn.cc, Nil)

\* The stream director: calls are the calls it made, in order; fields the log
\* fields it added; asked what the pool answered, if asked; cc, err its result.
Director(fullMethodName, routed, conn) ==
    IF routed.err # Nil
    THEN Directed(<<RouteCall(fullMethodName)>>, <<>>, NotAsked, NilConn, routed.err)
    ELSE LET calls == <<RouteCall(fullMethodName), ConnCall(routed.beName)>>
             fields == <<"proxy_backend", routed.beName>>
         IN  IF conn.err # Nil
             THEN Directed(calls, fields, conn, NilConn, conn.err)
             ELSE Directed(calls, fields, conn, conn.cc, Nil)

NoStream == [fullMethodName |-> ""]

NoDirected ==
    [done |-> FALSE, fullMethodName |-> "", routed |-> Routed("", Nil),
     out |-> Directed(<<>>, <<>>, NotAsked, NilConn, Nil)]

DirInit == dreq = NoStream /\ dcall = NoDirected

DirIdle == dreq = NoStream /\ dcall = NoDirected

\* A gRPC call arrives at the proxy.
Stream ==
    /\ \E fullMethodName \in Methods : dreq' = [fullMethodName |-> fullMethodName]
    /\ dcall' = NoDirected
    /\ UNCHANGED <<addrVars, routerVars, poolVars, concVars>>

\* The director is invoked for the call: one whole invocation, with the answers
\* of its router and of its pool.
Direct ==
    /\ dreq # NoStream
    /\ ~dcall.done
    /\ \E routed \in RouteOutcomes, conn \in ConnOutcomes :
          dcall' = [done |-> TRUE, fullMethodName |-> dreq.fullMethodName,
                    routed |-> routed,
                    out |-> Director(dreq.fullMethodName, routed, conn)]
    /\ UNCHANGED <<dreq, addrVars, routerVars, poolVars, concVars>>

vars ==
    <<rules, req, call, routes, rreq, rcall, pool, picks, got, shared, readers,
      refresher, installed, dreq, dcall>>

Init == AddrInit /\ RouterIdle /\ PoolIdle /\ ConcIdle /\ DirIdle

Next == Request \/ Address

Spec == Init /\ [][Next]_vars

RouterSpecInit == RouterInit /\ AddrIdle /\ PoolIdle /\ ConcIdle /\ DirIdle

RouterNext == Arrive \/ Match

RouterSpec == RouterSpecInit /\ [][RouterNext]_vars

PoolSpecInit == PoolInit /\ AddrIdle /\ RouterIdle /\ ConcIdle /\ DirIdle

PoolNext ==
    \/ \E name \in BackendNames \cup {"missing"} : Get(name)
    \/ \E name \in BackendNames, resolvable \in 0..(MaxTargets + 1) :
          Refresh(name, resolvable)

PoolSpec == PoolSpecInit /\ [][PoolNext]_vars

ConcSpecInit == ConcInit /\ AddrIdle /\ RouterIdle /\ PoolIdle /\ DirIdle

ConcNext ==
    \/ \E r \in Readers : GetLoad(r)
    \/ \E r \in Readers : GetSelect(r)
    \/ Resolve
    \/ Swap

ConcSpec == ConcSpecInit /\ [][ConcNext]_vars

DirSpecInit == DirInit /\ AddrIdle /\ RouterIdle /\ PoolIdle /\ ConcIdle

DirNext == Stream \/ Direct

DirSpec == DirSpecInit /\ [][DirNext]_vars

(***************************************************************************)
(* The vocabulary of the properties of the addresser.                      *)
(***************************************************************************)
Last(seq) == seq[Len(seq)]

HasPort(host) == \E i \in 1..Len(host) : SubSeq(host, i, i) = ":"

ColonAt(host) ==
    CHOOSE i \in 1..Len(host) :
        /\ SubSeq(host, i, i) = ":"
        /\ \A j \in (i + 1)..Len(host) : SubSeq(host, j, j) # ":"

\* The target host's name and port text: before and after its last colon.
TargetHostname(host) ==
    IF HasPort(host) THEN SubSeq(host, 1, ColonAt(host) - 1) ELSE host

TargetPortText(host) == SubSeq(host, ColonAt(host) + 1, Len(host))

IsDecimal(text) == text # "" /\ AllDigits(text)

WellFormed(host) == HasPort(host) => IsDecimal(TargetPortText(host))

\* A rule matches a hostname: its matcher is not empty and equals the hostname,
\* or begins with the wildcard and equals the hostname once the wildcard is
\* stripped.
Matches(hostname, rule) ==
    LET m == rule.DnsNameMatcher
    IN  /\ m # ""
        /\ IF SubSeq(m, 1, 1) = "*"
           THEN hostname = SubSeq(m, 2, Len(m))
           ELSE hostname = m

\* The first rule, in configured order, that matches the hostname (0: none).
FirstMatching(hostname) ==
    LET hits == {i \in 1..Len(rules) : Matches(hostname, rules[i])}
    IN  IF hits = {} THEN 0 ELSE CHOOSE i \in hits : \A j \in hits : i <= j

DefaultPort(rule) == IF rule.Port.Default # 0 THEN rule.Port.Default ELSE 80

EffectivePort(host, rule) ==
    IF HasPort(host) THEN ParseDigits(TargetPortText(host), 0)
    ELSE DefaultPort(rule)

\* The port is on the rule's allow-list.
Permitted(p, rule) ==
    \/ \E i \in 1..Len(rule.Port.Allowed) : rule.Port.Allowed[i] = p
    \/ \E i \in 1..Len(rule.Port.AllowedRanges) :
          /\ rule.Port.AllowedRanges[i].From <= p
          /\ p <= rule.Port.AllowedRanges[i].To

Resolved(looked) == ~looked.failed /\ Len(looked.addrs) > 0

Returned(addr) == call.out.err = Nil /\ ~call.out.panic /\ call.out.addr = addr

Failed(err) == call.out.err = err /\ ~call.out.panic /\ call.out.addr = ""

PortNotAllowed(p) ==
    NewError(StatusBadRequest, "port " \o FormatInt(p) \o " is not allowed")

\* The request of the call at hand is one the first matching rule authorizes.
Authorized ==
    LET i == FirstMatching(TargetHostname(call.host))
    IN  /\ WellFormed(call.host)
        /\ i # 0
        /\ Permitted(EffectivePort(call.host, rules[i]), rules[i])

(***************************************************************************)
(* C1.  A request whose hostname matches a rule, whose effective port the  *)
(* rule authorizes and whose hostname the lookup resolves is answered with *)
(* "<resolved IP>:<effective port>" and no error.                          *)
(***************************************************************************)
C1_ResolvedAddressReturned ==
    (call.done /\ Authorized /\ Resolved(call.dns[1])) =>
        LET i == FirstMatching(TargetHostname(call.host))
        IN  Returned(call.dns[1].addrs[1] \o ":"
                     \o FormatInt(EffectivePort(call.host, rules[i])))

(***************************************************************************)
(* C2.  A matcher that begins with the wildcard matches every hostname     *)
(* made of a non-empty prefix and the matcher's remainder, and neither the *)
(* bare remainder nor a hostname with another suffix.                      *)
(***************************************************************************)
IsWildcard(matcher) == matcher # "" /\ SubSeq(matcher, 1, 1) = "*"

WildcardMatches(hostname, matcher) ==
    LET rest == SubSeq(matcher, 2, Len(matcher))
    IN  /\ Len(hostname) > Len(rest)
        /\ SubSeq(hostname, Len(hostname) - Len(rest) + 1, Len(hostname)) = rest

C2_WildcardMatchesPrefixedNames ==
    (/\ call.done
     /\ ~HasPort(call.host)
     /\ Len(rules) > 0
     /\ IsWildcard(rules[1].DnsNameMatcher)) =>
        ((1 \in {call.out.matched[k] : k \in 1..Len(call.out.matched)})
            <=> WildcardMatches(call.host, rules[1].DnsNameMatcher))

(***************************************************************************)
(* C3.  Port authorization: an address is returned only with a port on     *)
(* the allow-list of the rule that matched, and a port that is not on the  *)
(* allow-list of the matched rule fails with PortNotAllowed, a bad         *)
(* request.                                                                *)
(***************************************************************************)
AddrPort(addr) == ParseDigits(SubSeq(addr, ColonAt(addr) + 1, Len(addr)), 0)

C4_HostPortParsed ==
    call.done =>
        IF ~HasPort(call.host)
        THEN call.parsed = [hostName |-> call.host, port |-> 0, err |-> Nil]
        ELSE IF IsDecimal(TargetPortText(call.host))
        THEN call.parsed = [hostName |-> TargetHostname(call.host),
                            port |-> ParseDigits(TargetPortText(call.host), 0),
                            err |-> Nil]
        ELSE call.parsed.err.status = StatusBadRequest

C6_ResolutionFailureFails ==
    /\ (call.done /\ Authorized /\ call.dns[1].failed) =>
          /\ call.out.err # Nil
          /\ call.out.err.status = StatusBadGateway
          /\ call.out.err # ErrRouteNotFound
          /\ call.out.addr = ""
    /\ (call.done /\ call.out.err = Nil /\ ~call.out.panic) =>
          \E k \in 1..Len(call.out.lookups) :
              /\ Resolved(call.out.lookups[k].got)
              /\ call.out.addr = call.out.lookups[k].got.addrs[1] \o
                      SubSeq(call.out.addr, ColonAt(call.out.addr), Len(call.out.addr))

(***************************************************************************)
(* C7.  Deny by default, as first stated: whenever no configured rule      *)
(* matches the request's hostname, Address fails with RouteNotFound and    *)
(* returns no address.                                                     *)
(***************************************************************************)
NoRuleMatches ==
    \A i \in 1..Len(rules) : ~Matches(TargetHostname(call.host), rules[i])

C8_FirstMatchingRuleWins ==
    (call.done /\ call.out.matched # <<>>) =>
        LET first == call.out.matched[1]
            alone == AddressOf(call.host, SubSeq(rules, 1, first), call.dns)
        IN  /\ call.out.matched = <<first>>
            /\ Len(call.out.lookups) <= 1
            /\ call.out.addr = alone.addr
            /\ call.out.err = alone.err
            /\ call.out.panic = alone.panic

(***************************************************************************)
(* The vocabulary of the properties of the router.                         *)
(***************************************************************************)
EqualFold(a, b) ==
    /\ Len(a) = Len(b)
    /\ \A i \in 1..Len(a) : LowerChar(SubSeq(a, i, i)) = LowerChar(SubSeq(b, i, i))

ModeHolds(route, r) == route.ProxyMode \in {"ANY", r.mode}

HostHolds(route, r) == route.HostMatcher = "" \/ EqualFold(route.HostMatcher, r.host)

\* A path rule of the configurations at hand is a literal path or a literal
\* prefix closed by one "*".
PathRuleHolds(rule, path) ==
    IF SubSeq(rule, Len(rule), Len(rule)) = "*"
    THEN /\ Len(path) >= Len(rule) - 1
         /\ SubSeq(path, 1, Len(rule) - 1) = SubSeq(rule, 1, Len(rule) - 1)
    ELSE path = rule

PathHolds(route, r) ==
    \/ route.PathRules = <<>>
    \/ \E i \in 1..Len(route.PathRules) : PathRuleHolds(route.PathRules[i], r.path)

HeaderHolds(route, r) ==
    \A want \in route.HeaderMatcher :
        \E have \in r.headers :
            EqualFold(have.key, want.key) /\ have.value = want.value

Holds(route, r) ==
    ModeHolds(route, r) /\ HostHolds(route, r) /\ PathHolds(route, r)
        /\ HeaderHolds(route, r)

Holding == {i \in 1..Len(routes) : Holds(routes[i], rcall.r)}

HttpRequest(mode, host, path) ==
    [mode |-> mode, host |-> host, path |-> path, headers |-> {}]

(***************************************************************************)
(* C9.  Router.Match returns the backend of the first route, in configured *)
(* order, whose proxy-mode, host, path and header predicates all hold, and *)
(* RouteNotFound if none holds; a REVERSE_PROXY route never matches a      *)
(* forward-proxy request, a FORWARD_PROXY route never matches a            *)
(* reverse-proxy request, and a path outside the route's path rules does   *)
(* not match.  The requests of the integration test are routed as the test *)
(* expects.                                                                *)
(***************************************************************************)
C9_FirstMatchingRoute ==
    rcall.done =>
        /\ IF Holding = {}
           THEN rcall.out = Matched("", ErrRouteNotFound, 0)
           ELSE LET first == CHOOSE i \in Holding : \A j \in Holding : i <= j
                IN  rcall.out = Matched(routes[first].BackendName, Nil, first)
        /\ rcall.out.err = Nil =>
              LET route == routes[rcall.out.route]
              IN  /\ ~(route.ProxyMode = "REVERSE_PROXY" /\ rcall.r.mode = "FORWARD_PROXY")
                  /\ ~(route.ProxyMode = "FORWARD_PROXY" /\ rcall.r.mode = "REVERSE_PROXY")
                  /\ PathHolds(route, rcall.r)
        /\ routes = routeConfigs =>
              /\ rcall.r = HttpRequest("REVERSE_PROXY", "secure.backends.test.local",
                                       "/some/strict/path")
                    => rcall.out.err = ErrRouteNotFound
              /\ rcall.r = HttpRequest("FORWARD_PROXY", "nonsecure.ext.example.com",
                                       "/some/strict/path")
                    => rcall.out.err = ErrRouteNotFound
              /\ rcall.r = HttpRequest("REVERSE_PROXY", "nonsecure.ext.example.com",
                                       "/other_path")
                    => rcall.out.err = ErrRouteNotFound
              /\ rcall.r = HttpRequest("REVERSE_PROXY", "nonsecure.ext.example.com",
                                       "/some/strict/path")
                    => rcall.out = Matched("non_secure", Nil, 1)
              /\ rcall.r = HttpRequest("FORWARD_PROXY", "secure.backends.test.local",
                                       "/some/strict/path")
                    => rcall.out = Matched("secure", Nil, 4)

\* Two routes hold, the second for another backend, and the first is returned.
C9_Witness ==
    /\ rcall.done
    /\ Len(routes) = 2
    /\ Holding = {1, 2}
    /\ routes[1].BackendName # routes[2].BackendName
    /\ rcall.out = Matched(routes[1].BackendName, Nil, 1)

(***************************************************************************)
(* C10.  Round robin: after M = k * N successful Get calls (k >= 1) on a   *)
(* backend with N live targets and no refresh in between, each target has  *)
(* been selected exactly k times, and consecutive selections follow the    *)
(* live target list cyclically.                                            *)
(***************************************************************************)
Count(x, seq) == Cardinality({j \in 1..Len(seq) : seq[j] = x})

IndexIn(live, x) == CHOOSE i \in 1..Len(live) : live[i] = x

C10_RoundRobin ==
    \A name \in BackendNames :
        LET live == pool[name].live
            N    == Len(live)
            M    == Len(picks[name])
        IN  /\ (N > 0 /\ M > 0 /\ M % N = 0) =>
                  \A i \in 1..N : Count(live[i], picks[name]) = M \div N
            /\ \A j \in 1..M : \E i \in 1..N : live[i] = picks[name][j]
            /\ \A j \in 1..(M - 1) :
                  IndexIn(live, picks[name][j + 1])
                      = (IndexIn(live, picks[name][j]) % N) + 1

\* Two full rounds over two targets, begun in the middle of the list.
C10_Witness ==
    \E name \in BackendNames :
        /\ Len(pool[name].live) = 2
        /\ Len(picks[name]) = 4
        /\ picks[name][1] = pool[name].live[2]
        /\ \A i \in 1..2 : Count(pool[name].live[i], picks[name]) = 2

(***************************************************************************)
(* C11.  Refresh atomicity: under every interleaving of concurrent Get     *)
(* calls with the refresh task, the list a Get selects from is one         *)
(* complete resolver snapshot: the one installed when the Get read the     *)
(* list if no refresh has replaced it since, the one before the refresh if *)
(* one has; never a mixture of entries of two snapshots.  The selected     *)
(* target is an entry of that list.                                        *)
(***************************************************************************)
Entries(list) == {list[i] : i \in 1..Len(list)}

InFlightOrDone(r) == readers[r].pc = "loaded" \/ readers[r].addr # ""

C11_RefreshAtomicity ==
    \A r \in Readers :
        /\ InFlightOrDone(r) => readers[r].list \in Snapshots
        /\ (readers[r].pc = "loaded" /\ readers[r].swaps = 0) =>
              readers[r].list = installed.current
        /\ (readers[r].pc = "loaded" /\ readers[r].swaps = 1) =>
              readers[r].list = installed.previous
        /\ readers[r].addr # "" => readers[r].addr \in Entries(readers[r].list)

\* A Get read the list, a refresh installed another generation, and the Get
\* selected from the list it had read.
C11_Witness ==
    \E r \in Readers :
        /\ readers[r].pc = "idle"
        /\ readers[r].addr # ""
        /\ readers[r].swaps = 1
        /\ readers[r].list = installed.previous
        /\ Len(installed.current) = 2
        /\ Entries(installed.current) \cap Entries(readers[r].list) = {}

(***************************************************************************)
(* C12.  The director's call protocol: in every invocation the first call  *)
(* is the one call to the router, with the method of the stream; the pool  *)
(* is asked at most once, only when the router returned no error, and for  *)
(* the name the router returned; when the router fails its error is the    *)
(* result and the pool is not asked; when the pool fails its error is the  *)
(* result, the pool was asked once and no connection is returned.          *)
(***************************************************************************)
CallsTo(calls, to) == {i \in 1..Len(calls) : calls[i].to = to}

C12_DirectorProtocol ==
    dcall.done =>
        LET calls == dcall.out.calls
            routed == dcall.routed
            asked == dcall.out.asked
        IN  /\ calls # <<>>
            /\ calls[1] = RouteCall(dcall.fullMethodName)
            /\ CallsTo(calls, "router.Route") = {1}
            /\ CallsTo(calls, "router.Route") \cup CallsTo(calls, "pool.Conn")
                  = 1..Len(calls)
            /\ Cardinality(CallsTo(calls, "pool.Conn")) <= 1
            /\ \A i \in CallsTo(calls, "pool.Conn") :
                  /\ i > 1
                  /\ routed.err = Nil
                  /\ calls[i].arg = routed.beName
            /\ routed.err # Nil =>
                  /\ dcall.out.err = routed.err
                  /\ dcall.out.cc = NilConn
                  /\ CallsTo(calls, "pool.Conn") = {}
            /\ (routed.err = Nil /\ asked.err # Nil) =>
                  /\ dcall.out.err = asked.err
                  /\ dcall.out.cc = NilConn
                  /\ Cardinality(CallsTo(calls, "pool.Conn")) = 1
            /\ (routed.err = Nil /\ asked.err = Nil) =>
                  /\ dcall.out.err = Nil
                  /\ dcall.out.cc = asked.cc

\* The router named a backend and the pool failed, although it handed back a
\* connection with its error.
C12_Witness ==
    /\ dcall.done
    /\ dcall.routed = Routed("backend_a", Nil)
    /\ dcall.out.asked = Dialed("cc1", ErrNoLiveTargets)
    /\ dcall.out.calls = <<RouteCall(dcall.fullMethodName), ConnCall("backend_a")>>
    /\ dcall.out.err = ErrNoLiveTargets
    /\ dcall.out.cc = NilConn

(***************************************************************************)
(* C13.  Rule matching uses the hostname with the port stripped: for a     *)
(* target host "<hostname>:<port>" the rules found to match are those      *)
(* whose matcher matches <hostname> alone, so that the first rule matching *)
(* the hostname is the first rule found to match, and none is found when   *)
(* none matches the hostname.                                              *)
(***************************************************************************)
C13_MatchOnHostnameAlone ==
    (/\ call.done
     /\ HasPort(call.host)
     /\ IsDecimal(TargetPortText(call.host))) =>
        LET first == FirstMatching(TargetHostname(call.host))
        IN  IF first = 0
            THEN call.out.matched = <<>>
            ELSE call.out.matched # <<>> /\ call.out.matched[1] = first

(***************************************************************************)
(* C14.  Full port range: an explicit port p with 1 <= p <= 65535 is       *)
(* parsed to the integer p with no error, ports above 32767 included, and  *)
(* a request whose first matching rule allows the range [1024, 65535] is   *)
(* not rejected as a bad request for any port from 1024 to 65535.          *)
(***************************************************************************)
RequestPort == ParseDigits(TargetPortText(call.host), 0)

C14_FullPortRange ==
    (/\ call.done
     /\ HasPort(call.host)
     /\ IsDecimal(TargetPortText(call.host))
     /\ 1 <= RequestPort
     /\ RequestPort <= 65535) =>
        LET first == FirstMatching(TargetHostname(call.host))
        IN  /\ call.parsed.err = Nil
            /\ call.parsed.port = RequestPort
            /\ (/\ first # 0
                /\ rules[first].Port.AllowedRanges = <<Range(1024, 65535)>>
                /\ 1024 <= RequestPort) =>
                  call.out.err.status # StatusBadRequest

(***************************************************************************)
(* C15.  No lookup on a validation or authorization failure: within one    *)
(* Address invocation a lookup is made only after the target host has      *)
(* parsed, a rule has matched and the port has passed that rule's          *)
(* allow-list; an invocation that ends as a bad request (MalformedPort,    *)
(* PortNotAllowed), or in RouteNotFound with no rule matched, has made no  *)
(* lookup; and no invocation makes more than one.                          *)
(***************************************************************************)
C15_NoLookupBeforeAuthorization ==
    call.done =>
        /\ Len(call.out.lookups) <= 1
        /\ call.out.lookups # <<>> =>
              /\ call.parsed.err = Nil
              /\ call.out.matched # <<>>
              /\ Permitted(EffectivePort(call.host, rules[call.out.matched[1]]),
                           rules[call.out.matched[1]])
        /\ call.out.err.status = StatusBadRequest => call.out.lookups = <<>>
        /\ (call.out.err = ErrRouteNotFound /\ call.out.matched = <<>>) =>
              call.out.lookups = <<>>

=============================================================================
